---------------------------- MODULE Spec2Model ----------------------------
(***************************************************************************)
(* A model of the test-selection data pipeline:                            *)
(*   src/cron/process_data.py  similarity scorers, feature synthesis,      *)
(*                             process_data_for_repo, train_model, main    *)
(*   src/cron/train_model.py   train_and_evaluate (the trainer subprocess) *)
(*   src/app.py                the immediate run and the 24 h scheduler    *)
(*                                                                         *)
(* Strings are sequences of one-character strings, so that splitting,      *)
(* concatenation and comparison are computed and not assumed.  Timestamps  *)
(* are integers counting days: every window of the code is a whole number  *)
(* of days and every comparison of the code is kept as written.            *)
(***************************************************************************)
EXTENDS Integers, Sequences, FiniteSets, TLC

VARIABLES
    \* ---- one call of calculate_minimal_distance ----
    changed_file_path,      \* first argument (None, a string or a collection)
    test_file_path,         \* second argument (None or a string)
    min_distance,           \* the value returned
    dist_pc,                \* "called" | "returned"
    common_tokens,          \* the value calculate_common_tokens returned
    \* ---- one call of process_test_run or of process_file_change ----
    arg_test_run,           \* process_test_run: the test-run row
    arg_file_change_path,   \* process_file_change: the path
    arg_pr_creation_date,   \* both: the date of the pull request
    arg_failed_run_dates,   \* process_test_run: the failure dates of the test case
    arg_file_change_dates,  \* process_file_change: the change dates of the file
    data,                   \* both: the dictionary returned
    synth_pc,               \* "idle" | "called" | "returned"
    \* ---- storage ----
    repo_pr_details,              \* table: rows in insertion order
    pr_to_files_changed_mapping,  \* table: rows in insertion order
    pr_to_test_runs_mapping,      \* table: rows in insertion order
    checkpoint_details,           \* table: set of rows (checkpoint is the serial key)
    predicted_result,             \* table: set of rows
    csv_files,                    \* the csv/ directory: path -> rows written
    \* ---- the clock and the scheduler ----
    now,                    \* datetime.now(), in days
    next_run,               \* next_run of the scheduled job (None before it is scheduled)
    \* ---- one run of main() per thread ----
    pc,                     \* position of each thread
    repo_index,             \* index of the repository of the for loop of main
    latest_checkpoint,      \* main: latest_checkpoint
    pull_request_details,   \* process_data_for_repo: rows fetched
    pr_files_changed_data,  \* process_data_for_repo: rows fetched
    pr_test_runs_data,      \* process_data_for_repo: rows fetched
    files_changed_history,      \* process_data_for_repo: path -> change dates
    test_runs_failure_history,  \* process_data_for_repo: key -> failure dates
    feature_data,           \* process_data_for_repo: rows assembled
    processed_data_path,    \* main: what process_data_for_repo returned
    failed_query,           \* the storage query that raised in this run, if any
    trainer                 \* the trainer subprocess of the thread

distVars == <<changed_file_path, test_file_path, min_distance, dist_pc>>

synthVars == <<common_tokens, arg_test_run, arg_file_change_path, arg_pr_creation_date,
               arg_failed_run_dates, arg_file_change_dates, data, synth_pc>>

tableVars == <<repo_pr_details, pr_to_files_changed_mapping, pr_to_test_runs_mapping>>

storeVars == <<checkpoint_details, predicted_result, csv_files>>

clockVars == <<now, next_run>>

localVars == <<pull_request_details, pr_files_changed_data, pr_test_runs_data,
               files_changed_history, test_runs_failure_history, feature_data>>

runVars == <<pc, repo_index, latest_checkpoint, processed_data_path, failed_query, trainer>>

vars == <<distVars, synthVars, tableVars, storeVars, clockVars, localVars, runVars>>

-----------------------------------------------------------------------------
(* Strings and Python values *)

Min(a, b) == IF a <= b THEN a ELSE b

\* Python's None, a str and a list, tagged so that a str of characters and a
\* list of entries are told apart as isinstance() does.
None == [kind |-> "none", val |-> <<>>]

Str(s) == [kind |-> "str", val |-> s]

List(l) == [kind |-> "list", val |-> l]

\* Python truthiness of None, "" and [].
Falsy(x) == x.kind = "none" \/ x.val = <<>>

\* str.split(sep) and re.split("[...]"): the components between the separators,
\* empty ones kept.  Computed by halves: the last component of the left half
\* and the first of the right half are one component.
RECURSIVE SplitRange(_, _, _, _)
SplitRange(s, seps, lo, hi) ==
    IF lo > hi THEN << <<>> >>
    ELSE IF lo = hi THEN (IF s[lo] \in seps THEN << <<>>, <<>> >> ELSE << <<s[lo]>> >>)
    ELSE LET mid == (lo + hi) \div 2
             l == SplitRange(s, seps, lo, mid)
             r == SplitRange(s, seps, mid + 1, hi)
         IN  SubSeq(l, 1, Len(l) - 1) \o << l[Len(l)] \o r[1] >> \o Tail(r)

Split(s, seps) == SplitRange(s, seps, 1, Len(s))

-----------------------------------------------------------------------------
(* Path Similarity Scorer *)

\* The sentinel "maximal distance".
MaxDistance == 1000

\* The loop of lines 41-45: the number of iterations that subtract 2 among
\* i = from .. upto (1-based), none after the first mismatch (the break).
\* Computed by halves: the right half counts only if the left half matched.
RECURSIVE PrefixCredit(_, _, _, _)
PrefixCredit(changed_splits, test_splits, from, upto) ==
    IF from > upto THEN 0
    ELSE IF from = upto
         THEN (IF test_splits[from] = changed_splits[from] THEN 1 ELSE 0)
    ELSE LET mid == (from + upto) \div 2
             left == PrefixCredit(changed_splits, test_splits, from, mid)
         IN  IF left = mid - from + 1
             THEN left + PrefixCredit(changed_splits, test_splits, mid + 1, upto)
             ELSE left

\* range(min(len(changed) - 1, len(test) - 1)) "fixed" to reach the last component.
EntryDistanceWholePath(current_changed_file_path, test_file_path_splits) ==
    LET changed_file_path_splits == Split(current_changed_file_path, {"/"})
        n == Min(Len(changed_file_path_splits), Len(test_file_path_splits))
    IN  Len(changed_file_path_splits) + Len(test_file_path_splits)
          - 2 * PrefixCredit(changed_file_path_splits, test_file_path_splits, 1, n)

\* The body of the for loop over changed_files: the distance of one entry.
EntryDistance(current_changed_file_path, test_file_path_splits) ==
    LET changed_file_path_splits == Split(current_changed_file_path, {"/"})
        n == Min(Len(changed_file_path_splits) - 1, Len(test_file_path_splits) - 1)
    IN  Len(changed_file_path_splits) + Len(test_file_path_splits)
          - 2 * PrefixCredit(changed_file_path_splits, test_file_path_splits, 1, n)

RECURSIVE MinOverEntries(_, _, _, _)
MinOverEntries(changed_files, test_file_path_splits, i, acc) ==
    IF i > Len(changed_files) THEN acc
    ELSE MinOverEntries(changed_files, test_file_path_splits, i + 1,
            Min(acc, EntryDistance(changed_files[i].filename, test_file_path_splits)))

calculate_minimal_distance(changed, test) ==
    IF Falsy(changed) \/ Falsy(test) THEN MaxDistance
    ELSE LET test_file_path_splits == Split(test.val, {"/"})
             changed_files == IF changed.kind = "str"
                              THEN <<[filename |-> changed.val]>>
                              ELSE changed.val
         IN  MinOverEntries(changed_files, test_file_path_splits, 1, MaxDistance)

\* A split that keeps the empty tokens.
TokensWithEmpty(path) ==
    LET parts == Split(path, {"/", "."})
    IN  {parts[i] : i \in 1..Len(parts)}

\* re.split(r"[/.]", path), empty tokens dropped, as a set.
Tokens(path) ==
    LET parts == Split(path, {"/", "."})
    IN  {parts[i] : i \in {j \in 1..Len(parts) : parts[j] # <<>>}}

calculate_common_tokens(changed, test) ==
    IF Falsy(changed) \/ Falsy(test) THEN 0
    ELSE Cardinality(Tokens(changed.val) \cap Tokens(test.val))

-----------------------------------------------------------------------------
(* Feature Synthesizer *)

Colons == <<":", ":", ":", ":">>

get_test_run_key(test_case_file_path, test_case_name) ==
    test_case_file_path \o Colons \o test_case_name

\* A count that takes an entry equal to the bound as well.
CountAfterInclusive(dates, bound) ==
    Cardinality({i \in 1..Len(dates) : dates[i] >= bound})

\* The number of entries of a date list (with multiplicity) strictly later
\* than a bound: one "+= 1" per loop iteration whose condition holds.
CountAfter(dates, bound) == Cardinality({i \in 1..Len(dates) : dates[i] > bound})

process_test_run(test_run, pr_creation_date, failed_run_dates) ==
    [test_case_file_path |-> test_run.test_case_file_path,
     test_case_name |-> test_run.test_case_name,
     actual_result |-> IF test_run.actual_result = "passed" THEN 0 ELSE 1,
     failures_7_days |-> CountAfter(failed_run_dates, pr_creation_date - 7),
     failures_14_days |-> CountAfter(failed_run_dates, pr_creation_date - 14),
     failures_28_days |-> CountAfter(failed_run_dates, pr_creation_date - 28)]

\* str.rfind: the last index (1-based) of a character, 0 when absent.
LastIndexOf(s, c) ==
    LET at == {i \in 1..Len(s) : s[i] = c}
    IN  IF at = {} THEN 0 ELSE CHOOSE i \in at : \A j \in at : j <= i

\* os.path.splitext: the extension starts at the last dot of the last
\* component, unless only dots precede it there.
splitext(path) ==
    LET sepIndex == LastIndexOf(path, "/")
        dotIndex == LastIndexOf(path, ".")
    IN  IF /\ dotIndex > sepIndex
           /\ \E i \in (sepIndex + 1)..(dotIndex - 1) : path[i] # "."
        THEN <<SubSeq(path, 1, dotIndex - 1), SubSeq(path, dotIndex, Len(path))>>
        ELSE <<path, <<>>>>

\* A count that leaves out an entry equal to the bound.
CountSinceStrict(dates, bound) ==
    Cardinality({i \in 1..Len(dates) : dates[i] > bound})

\* The number of entries of a date list (with multiplicity) at or after a bound.
CountSince(dates, bound) == Cardinality({i \in 1..Len(dates) : dates[i] >= bound})

process_file_change(file_change_path, pr_creation_date, file_change_dates) ==
    LET parts == splitext(file_change_path)
        file_name == parts[1]
        file_extension == parts[2]
    IN  [file_name |-> file_name,
         file_extension |-> IF file_extension # <<>> THEN Tail(file_extension) ELSE <<>>,
         changes_3_days |-> CountSince(file_change_dates, pr_creation_date - 3),
         changes_14_days |-> CountSince(file_change_dates, pr_creation_date - 14)]

-----------------------------------------------------------------------------
(* process_data_for_repo: History Aggregator and Pair Expander *)

Date(d) == [kind |-> "date", val |-> d]

\* The lookback of incremental mode, in days.
LookbackDays == 28

\* start_date of incremental mode without the lookback.
StartDateNoLookback(checkpoint_date) == checkpoint_date.val

\* A lookback of the longest change window only.
StartDateShortLookback(checkpoint_date) == checkpoint_date.val - 14

StartDate(checkpoint_date) == checkpoint_date.val - LookbackDays

\* The two SELECTs on repo_pr_details (lines 126-145).
FetchPullRequests(table, repo_name, checkpoint_date) ==
    LET Since(pr) == pr.repo_name = repo_name /\ pr.date_of_pr >= StartDate(checkpoint_date)
        OfRepo(pr) == pr.repo_name = repo_name
    IN  IF checkpoint_date # None THEN SelectSeq(table, Since) ELSE SelectSeq(table, OfRepo)

Links(details) == {details[i].pr_link : i \in 1..Len(details)}

\* SELECT ... WHERE pr_link IN %s (lines 154-162 and 179-187).
FetchByLinks(table, details) ==
    LET In(row) == row.pr_link \in Links(details)
    IN  SelectSeq(table, In)

\* next((pr["date_of_pr"] for pr in pull_request_details if pr["pr_link"] == pr_link), None):
\* the dates of the first row with that link (none: the empty sequence).
DatesOfLink(details, pr_link) ==
    LET at == {i \in 1..Len(details) : details[i].pr_link = pr_link}
    IN  IF at = {} THEN <<>>
        ELSE <<details[CHOOSE i \in at : \A j \in at : i <= j].date_of_pr>>

\* The dates appended, in row order, for the rows whose pull request is
\* found ("if changed_date:").
DatesAppended(details, rows) ==
    LET Kept(row) == DatesOfLink(details, row.pr_link) # <<>>
        kept == SelectSeq(rows, Kept)
    IN  [i \in 1..Len(kept) |-> DatesOfLink(details, kept[i].pr_link)[1]]

\* files_changed_history (lines 164-176).
FilesChangedHistory(details, files_data) ==
    [path \in {files_data[i].files_paths_changed : i \in 1..Len(files_data)} |->
        LET Same(row) == row.files_paths_changed = path
        IN  DatesAppended(details, SelectSeq(files_data, Same))]

RowKey(row) == get_test_run_key(row.test_case_file_path, row.test_case_name)

\* test_runs_failure_history (lines 189-202).
TestRunsFailureHistory(details, runs_data) ==
    [key \in {RowKey(runs_data[i]) : i \in 1..Len(runs_data)} |->
        LET SameFailed(row) == RowKey(row) = key /\ row.actual_result = "failed"
        IN  DatesAppended(details, SelectSeq(runs_data, SameFailed))]

\* dict.get(key, [])
GetOrEmpty(history, key) == IF key \in DOMAIN history THEN history[key] ELSE <<>>

\* len(pr["list_of_authors"]) if pr["list_of_authors"] else 0
DistinctAuthorCount(pr) == IF Falsy(pr.list_of_authors) THEN 0 ELSE Len(pr.list_of_authors.val)

\* One row of feature_data (lines 256-271).
FeatureRow(pr, test_run, file_change, num_files_changed) ==
    [test_case_file_path |-> test_run.test_case_file_path,
     test_case_name |-> test_run.test_case_name,
     actual_result |-> test_run.actual_result,
     failures_7_days |-> test_run.failures_7_days,
     failures_14_days |-> test_run.failures_14_days,
     failures_28_days |-> test_run.failures_28_days,
     file_name |-> file_change.file_name,
     file_extension |-> file_change.file_extension,
     changes_3_days |-> file_change.changes_3_days,
     changes_14_days |-> file_change.changes_14_days,
     distinct_author |-> DistinctAuthorCount(pr),
     common_tokens |-> calculate_common_tokens(Str(test_run.test_case_file_path),
                                               Str(file_change.file_name)),
     minimal_distance |-> calculate_minimal_distance(Str(test_run.test_case_file_path),
                                                     Str(file_change.file_name)),
     num_files_changed |-> num_files_changed,
     date_of_pr |-> pr.date_of_pr,
     pr_link |-> pr.pr_link]

\* itertools.product(tests, files), the second factor varying fastest.
Product(tests, files) ==
    [k \in 1..(Len(tests) * Len(files)) |->
        <<tests[((k - 1) \div Len(files)) + 1], files[((k - 1) % Len(files)) + 1]>>]

\* The pairs of a pull request without its last file change.
PairsDroppingLastFile(tests, files) ==
    Product(tests, SubSeq(files, 1, Len(files) - 1))

Pairs(tests, files) == Product(tests, files)

\* The body of "for pr in pull_request_details" (lines 207-271).
FeatureRowsOfPr(pr, details, files_data, runs_data) ==
    LET Mine(row) == row.pr_link = pr.pr_link
        changes_by_path == FilesChangedHistory(details, files_data)
        failures_by_key == TestRunsFailureHistory(details, runs_data)
        pr_files_changed == SelectSeq(files_data, Mine)
        pr_test_runs == SelectSeq(runs_data, Mine)
        processed_test_runs ==
            [i \in 1..Len(pr_test_runs) |->
                process_test_run(pr_test_runs[i], pr.date_of_pr,
                    GetOrEmpty(failures_by_key, RowKey(pr_test_runs[i])))]
        processed_file_changes ==
            [i \in 1..Len(pr_files_changed) |->
                process_file_change(pr_files_changed[i].files_paths_changed, pr.date_of_pr,
                    GetOrEmpty(changes_by_path, pr_files_changed[i].files_paths_changed))]
        pairs == Pairs(processed_test_runs, processed_file_changes)
    IN  [k \in 1..Len(pairs) |->
            FeatureRow(pr, pairs[k][1], pairs[k][2], Len(pr_files_changed))]

RECURSIVE FeatureRowsFrom(_, _, _, _)
FeatureRowsFrom(i, details, files_data, runs_data) ==
    IF i > Len(details) THEN <<>>
    ELSE FeatureRowsOfPr(details[i], details, files_data, runs_data)
            \o FeatureRowsFrom(i + 1, details, files_data, runs_data)

\* feature_data after the loop over the pull requests.
FeatureData(details, files_data, runs_data) ==
    FeatureRowsFrom(1, details, files_data, runs_data)

-----------------------------------------------------------------------------
(* Inputs of the scorer *)

\* Longest enumerated path string, in characters.
MaxPathLen == 3

\* Most entries in a collection of changed files.
MaxEntries == 2

\* Components of the two deep paths (their distance exceeds the sentinel).
DeepDepth == 501

PathChars == {"a", "b", "/", "."}

StringsUpTo(n) == UNION {[1..k -> PathChars] : k \in 0..n}

\* "a/b/c.py" and "a/b/test_c.py" of the documented example.
PathABC == <<"a", "/", "b", "/", "c", ".", "p", "y">>

PathABTestC == <<"a", "/", "b", "/", "t", "e", "s", "t", "_", "c", ".", "p", "y">>

\* c/c/.../c with n components.
DeepPath(c, n) == [i \in 1..(2 * n - 1) |-> IF i % 2 = 1 THEN c ELSE "/"]

PathStrings == StringsUpTo(MaxPathLen) \cup {PathABC, PathABTestC}
                 \cup {DeepPath("a", DeepDepth), DeepPath("b", DeepDepth)}

EntryNames == {<<"a">>, <<"a", "/", "b">>, <<"b", "/", "a">>, <<>>, PathABC}

Entries == {[filename |-> s] : s \in EntryNames}

Collections == UNION {[1..k -> Entries] : k \in 0..MaxEntries}

ChangedInputs == {None} \cup {Str(s) : s \in PathStrings} \cup {List(l) : l \in Collections}

TestInputs == {None} \cup {Str(s) : s \in PathStrings}

-----------------------------------------------------------------------------
(* Inputs of the pipeline: the stored rows *)

\* The thread of app.py's __main__ and the scheduler thread.
Threads == {"main", "cron"}

\* The rows of the repositories table, in the order main() fetches them.
repositories == <<"r1", "r2">>

Repos == {repositories[i] : i \in 1..Len(repositories)}

\* Most rows of each table in the inputs of SpecFeat.
MaxPRs == 2

MaxFileRows == 2

MaxTestRows == 2

\* Days the clock may advance.
MaxTicks == 1

\* The dates of pull requests: 14 days apart, the first 28 days before the last.
DateList == <<2, 16, 30>>

Dates == {DateList[i] : i \in 1..Len(DateList)}

LastTick == DateList[Len(DateList)] + MaxTicks

\* checkpoint_date of a pass: none, or the date whose lookback starts at the
\* second date of DateList.
InputCheckpoints == {None, Date(DateList[2] + 28)}

PrLinkNames == <<"p1", "p2", "p3", "p4", "p5", "p6">>

\* "a/t.py"
TestPathA == <<"a", "/", "t", ".", "p", "y">>

\* "a/f.py" and "g"
FilePathA == <<"a", "/", "f", ".", "p", "y">>

FilePathG == <<"g">>

TestCaseFilePaths == {TestPathA}

TestCaseNames == {<<"x">>, <<"y">>}

FilePaths == {FilePathA, FilePathG}

AuthorsOf(link) == IF link = "p1" THEN None ELSE List(<<"u1", "u2">>)

PrRow(link, repo_name, date) ==
    [pr_link |-> link, repo_name |-> repo_name, date_of_pr |-> date,
     list_of_authors |-> AuthorsOf(link)]

\* repo_pr_details with pr_link unique; the first row belongs to the first repository.
PrTables ==
    UNION {{[i \in 1..k |-> PrRow(PrLinkNames[i], f[i][1], f[i][2])] :
               f \in {g \in [1..k -> Repos \X Dates] : k > 0 => g[1][1] = repositories[1]}} :
           k \in 0..MaxPRs}

FileRows ==
    {[pr_link |-> PrLinkNames[i], files_paths_changed |-> path] :
        i \in 1..MaxPRs, path \in FilePaths}

FileTables == UNION {[1..k -> FileRows] : k \in 0..MaxFileRows}

TestRows ==
    {[pr_link |-> PrLinkNames[i], test_case_file_path |-> path, test_case_name |-> name,
      actual_result |-> result] :
        i \in 1..MaxPRs, path \in TestCaseFilePaths, name \in TestCaseNames,
        result \in {"passed", "failed"}}

TestTables == UNION {[1..k -> TestRows] : k \in 0..MaxTestRows}

\* The stored rows of one repository in a run of the whole process:
\*   "none"  no pull request;
\*   "bare"  one pull request with a test run and no file change;
\*   "full"  three pull requests, dated the day before the first date, the
\*           first date and the last date, each with one test run (failed,
\*           failed, passed) and one file change.
Shapes == {"none", "bare", "full"}

ShapeLink(k, j) == PrLinkNames[3 * (k - 1) + j]

ShapePrs(k, shape) ==
    LET repo_name == repositories[k]
    IN  IF shape = "none" THEN <<>>
        ELSE IF shape = "bare"
             THEN <<PrRow(ShapeLink(k, 1), repo_name, DateList[Len(DateList)])>>
        ELSE <<PrRow(ShapeLink(k, 1), repo_name, DateList[1] - 1),
               PrRow(ShapeLink(k, 2), repo_name, DateList[1]),
               PrRow(ShapeLink(k, 3), repo_name, DateList[Len(DateList)])>>

ShapeFiles(k, shape) ==
    IF shape = "full"
    THEN [j \in 1..3 |-> [pr_link |-> ShapeLink(k, j), files_paths_changed |-> FilePathA]]
    ELSE <<>>

TestRunRow(link, result) ==
    [pr_link |-> link, test_case_file_path |-> TestPathA, test_case_name |-> <<"x">>,
     actual_result |-> result]

ShapeTests(k, shape) ==
    IF shape = "none" THEN <<>>
    ELSE IF shape = "bare" THEN <<TestRunRow(ShapeLink(k, 1), "passed")>>
    ELSE <<TestRunRow(ShapeLink(k, 1), "failed"),
           TestRunRow(ShapeLink(k, 2), "failed"),
           TestRunRow(ShapeLink(k, 3), "passed")>>

RECURSIVE Concat(_, _)
Concat(F, k) == IF k = 0 THEN <<>> ELSE Concat(F, k - 1) \o F[k]

StoredInputs ==
    {[prs |-> Concat([k \in 1..Len(repositories) |-> ShapePrs(k, shape[k])], Len(repositories)),
      files |-> Concat([k \in 1..Len(repositories) |-> ShapeFiles(k, shape[k])], Len(repositories)),
      tests |-> Concat([k \in 1..Len(repositories) |-> ShapeTests(k, shape[k])], Len(repositories))] :
        shape \in [1..Len(repositories) -> Shapes]}

-----------------------------------------------------------------------------
(* The pipeline: main, process_data_for_repo, train_model and the trainer *)

NoTrainer == [exit |-> 0, committed |-> FALSE, test_keys |-> {}]

\* The file name csv/{repo_name}_{timestamp}.csv.
OutputFile(repo_name, timestamp) == [repo_name |-> repo_name, timestamp |-> timestamp]

\* An uncaught exception leaves main().  On the main thread the interpreter
\* exits, and the daemon scheduler thread dies with it; on the scheduler
\* thread only that thread ends.
Raised(t) ==
    IF t = "main" THEN [u \in Threads |-> IF u = "main" THEN "raised" ELSE "killed"]
    ELSE [pc EXCEPT ![t] = "raised"]

\* The next iteration of "for repo in repositories".
NextRepo(t) ==
    /\ pc' = [pc EXCEPT ![t] = "resolve"]
    /\ repo_index' = [repo_index EXCEPT ![t] = @ + 1]

\* main, lines 324-329: connect and fetch the repositories.
FetchRepositories(t) ==
    /\ pc[t] = "start"
    /\ \/ /\ pc' = [pc EXCEPT ![t] = "resolve"]
          /\ repo_index' = [repo_index EXCEPT ![t] = 1]
          /\ UNCHANGED failed_query
       \/ /\ pc' = Raised(t)
          /\ failed_query' = [failed_query EXCEPT ![t] = "repositories"]
          /\ UNCHANGED repo_index
    /\ UNCHANGED <<distVars, synthVars, tableVars, storeVars, clockVars, localVars,
                   latest_checkpoint, processed_data_path, trainer>>

\* SELECT MAX(date_of_checkpoint) ... WHERE repo_name = %s
MaxCheckpoint(table, repo_name) ==
    LET dates == {row.date_of_checkpoint : row \in {r \in table : r.repo_name = repo_name}}
    IN  IF dates = {} THEN None
        ELSE Date(CHOOSE d \in dates : \A e \in dates : e <= d)

\* main, lines 332-342: the Checkpoint Resolver.
ResolveCheckpoint(t) ==
    /\ pc[t] = "resolve"
    /\ repo_index[t] <= Len(repositories)
    /\ \/ /\ latest_checkpoint' = [latest_checkpoint EXCEPT ![t] =
                    MaxCheckpoint(checkpoint_details, repositories[repo_index[t]])]
          /\ pc' = [pc EXCEPT ![t] = "process"]
          /\ UNCHANGED failed_query
       \/ /\ pc' = Raised(t)
          /\ failed_query' = [failed_query EXCEPT ![t] = "checkpoint"]
          /\ UNCHANGED latest_checkpoint
    /\ UNCHANGED <<distVars, synthVars, tableVars, storeVars, clockVars, localVars,
                   repo_index, processed_data_path, trainer>>

\* process_data_for_repo (lines 117-287) and the "if processed_data_path:" of
\* main.  The queries come before the write, so a query that raises leaves no
\* file; nothing in main catches the exception.
ProcessDataForRepo(t) ==
    /\ pc[t] = "process"
    /\ LET repo_name == repositories[repo_index[t]]
           details == FetchPullRequests(repo_pr_details, repo_name, latest_checkpoint[t])
           files_data == FetchByLinks(pr_to_files_changed_mapping, details)
           runs_data == FetchByLinks(pr_to_test_runs_mapping, details)
           rows == FeatureData(details, files_data, runs_data)
           output_file == OutputFile(repo_name, now)
       IN  \/ /\ details = <<>>
              /\ pull_request_details' = [pull_request_details EXCEPT ![t] = details]
              /\ pr_files_changed_data' = [pr_files_changed_data EXCEPT ![t] = <<>>]
              /\ pr_test_runs_data' = [pr_test_runs_data EXCEPT ![t] = <<>>]
              /\ files_changed_history' = [files_changed_history EXCEPT ![t] = <<>>]
              /\ test_runs_failure_history' = [test_runs_failure_history EXCEPT ![t] = <<>>]
              /\ feature_data' = [feature_data EXCEPT ![t] = <<>>]
              /\ processed_data_path' = [processed_data_path EXCEPT ![t] = None]
              /\ NextRepo(t)
              /\ UNCHANGED <<csv_files, failed_query>>
           \/ /\ details # <<>>
              /\ pull_request_details' = [pull_request_details EXCEPT ![t] = details]
              /\ pr_files_changed_data' = [pr_files_changed_data EXCEPT ![t] = files_data]
              /\ pr_test_runs_data' = [pr_test_runs_data EXCEPT ![t] = runs_data]
              /\ files_changed_history' =
                    [files_changed_history EXCEPT ![t] = FilesChangedHistory(details, files_data)]
              /\ test_runs_failure_history' =
                    [test_runs_failure_history EXCEPT ![t] = TestRunsFailureHistory(details, runs_data)]
              /\ feature_data' = [feature_data EXCEPT ![t] = rows]
              /\ csv_files' = IF rows # <<>>
                              THEN [f \in DOMAIN csv_files \cup {output_file} |->
                                        IF f = output_file THEN rows ELSE csv_files[f]]
                              ELSE csv_files
              /\ processed_data_path' = [processed_data_path EXCEPT ![t] = output_file]
              /\ pc' = [pc EXCEPT ![t] = "train"]
              /\ UNCHANGED <<repo_index, failed_query>>
           \/ /\ pc' = Raised(t)
              /\ failed_query' = [failed_query EXCEPT ![t] = "process_data_for_repo"]
              /\ UNCHANGED <<localVars, csv_files, processed_data_path, repo_index>>
    /\ UNCHANGED <<distVars, synthVars, tableVars, checkpoint_details, predicted_result, clockVars,
                   latest_checkpoint, trainer>>

\* ---- train_model.py: the trainer subprocess ----

DatasetLinks(rows) == {rows[i].pr_link : i \in 1..Len(rows)}

DateOfLink(rows, link) ==
    rows[CHOOSE i \in 1..Len(rows) : rows[i].pr_link = link].date_of_pr

\* split_index = int(len(pr_dates) * 0.8)
SplitIndex(n) == (n * 8) \div 10

\* test_pr_links: the pull requests from split_index on, in date order.  The
\* sort does not order equal dates, so every choice among them is possible.
TestLinkSets(rows) ==
    LET links == DatasetLinks(rows)
    IN  {S \in SUBSET links :
            /\ Cardinality(S) = Cardinality(links) - SplitIndex(Cardinality(links))
            /\ \A later \in S : \A earlier \in links \ S :
                   DateOfLink(rows, earlier) <= DateOfLink(rows, later)}

\* The groups of aggregated_predictions: (pr_link, test_case_file_path, test_case_name).
PredictionKeys(rows, test_links) ==
    {[pr_link |-> rows[i].pr_link,
      test_case_file_path |-> rows[i].test_case_file_path,
      test_case_name |-> rows[i].test_case_name] :
        i \in {j \in 1..Len(rows) : rows[j].pr_link \in test_links}}

\* RETURNING checkpoint: the next value of the serial key.
NextCheckpointId(table) ==
    LET ids == {row.checkpoint : row \in table}
    IN  IF ids = {} THEN 1 ELSE (CHOOSE i \in ids : \A j \in ids : j <= i) + 1

ConflictKey(row) == <<row.pr_link, row.test_case_file_path, row.test_case_name, row.checkpoint>>

\* INSERT ... ON CONFLICT (pr_link, test_case_file_path, test_case_name, checkpoint) DO NOTHING
InsertOnConflictDoNothing(table, rows) ==
    table \cup {row \in rows : \A old \in table : ConflictKey(old) # ConflictKey(row)}

\* train_model starts the subprocess; train_and_evaluate lines 65-128: load the
\* dataset, split, fit, evaluate and save the artifacts.  A missing file and an
\* empty training frame raise; fitting and evaluating may raise.
TrainFit(t) ==
    /\ pc[t] = "train"
    /\ LET path == processed_data_path[t]
       IN  \/ /\ path \notin DOMAIN csv_files
              /\ trainer' = [trainer EXCEPT ![t] = [exit |-> 1, committed |-> FALSE,
                                                    test_keys |-> {}]]
              /\ pc' = [pc EXCEPT ![t] = "report"]
           \/ /\ path \in DOMAIN csv_files
              /\ SplitIndex(Cardinality(DatasetLinks(csv_files[path]))) = 0
              /\ trainer' = [trainer EXCEPT ![t] = [exit |-> 1, committed |-> FALSE,
                                                    test_keys |-> {}]]
              /\ pc' = [pc EXCEPT ![t] = "report"]
           \/ /\ path \in DOMAIN csv_files
              /\ SplitIndex(Cardinality(DatasetLinks(csv_files[path]))) > 0
              /\ \/ /\ trainer' = [trainer EXCEPT ![t] = [exit |-> 1, committed |-> FALSE,
                                                          test_keys |-> {}]]
                    /\ pc' = [pc EXCEPT ![t] = "report"]
                 \/ \E test_links \in TestLinkSets(csv_files[path]) :
                       /\ trainer' = [trainer EXCEPT ![t] =
                              [exit |-> 0, committed |-> FALSE,
                               test_keys |-> PredictionKeys(csv_files[path], test_links)]]
                       /\ pc' = [pc EXCEPT ![t] = "save"]
    /\ UNCHANGED <<distVars, synthVars, tableVars, storeVars, clockVars, localVars,
                   repo_index, latest_checkpoint, processed_data_path, failed_query>>

\* The exit status of the block of lines 130-183 when the commit is followed
\* by an exception that is not caught.
SaveExitCrashAfterCommit(outcome) == IF outcome = "rollback" THEN 0 ELSE 1

\* The exit status of the block of lines 130-183: exceptions are caught and
\* rolled back (exit 0), except that a failure to create the cursor leaves
\* cur unbound for the finally clause (exit 1).
SaveExit(outcome) == IF outcome = "no_cursor" THEN 1 ELSE 0

\* train_and_evaluate lines 130-183: one transaction inserting the checkpoint
\* row and the prediction rows, committed at the end or rolled back.
TrainSave(t) ==
    /\ pc[t] = "save"
    /\ \/ \E predicted \in [trainer[t].test_keys -> {"passed", "failed"}] :
             LET checkpoint_id == NextCheckpointId(checkpoint_details)
                 insert_data ==
                     {[pr_link |-> k.pr_link,
                       test_case_file_path |-> k.test_case_file_path,
                       test_case_name |-> k.test_case_name,
                       predicted_result |-> predicted[k],
                       checkpoint |-> checkpoint_id] : k \in trainer[t].test_keys}
             IN  /\ checkpoint_details' = checkpoint_details \cup
                        {[checkpoint |-> checkpoint_id,
                          repo_name |-> repositories[repo_index[t]],
                          date_of_checkpoint |-> now,
                          data_path |-> processed_data_path[t]]}
                 /\ predicted_result' = InsertOnConflictDoNothing(predicted_result, insert_data)
                 /\ trainer' = [trainer EXCEPT ![t].exit = SaveExit("commit"),
                                               ![t].committed = TRUE]
       \/ \E outcome \in {"rollback", "no_cursor"} :
             /\ trainer' = [trainer EXCEPT ![t].exit = SaveExit(outcome)]
             /\ UNCHANGED <<checkpoint_details, predicted_result>>
    /\ pc' = [pc EXCEPT ![t] = "report"]
    /\ UNCHANGED <<distVars, synthVars, tableVars, csv_files, clockVars, localVars,
                   repo_index, latest_checkpoint, processed_data_path, failed_query>>

\* try/except of train_model without the except clause.
TrainModelUncaught(exit) == IF exit = 0 THEN "returns" ELSE "raises"

\* train_model, lines 311-317: subprocess.run(check=True) raises
\* CalledProcessError on a non-zero exit, which the except clause catches.
TrainModelOutcome(exit) == "returns"

TrainReport(t) ==
    /\ pc[t] = "report"
    /\ IF TrainModelOutcome(trainer[t].exit) = "returns"
       THEN NextRepo(t)
       ELSE pc' = Raised(t) /\ UNCHANGED repo_index
    /\ UNCHANGED <<distVars, synthVars, tableVars, storeVars, clockVars, localVars,
                   latest_checkpoint, processed_data_path, failed_query, trainer>>

\* The period of the scheduled job, in days: schedule.every(24).hours.
IntervalDays == 1

\* main returns after the last repository.  On the main thread app.run follows;
\* on the scheduler thread the job is rescheduled one period from now.
MainReturn(t) ==
    /\ pc[t] = "resolve"
    /\ repo_index[t] > Len(repositories)
    /\ pc' = [pc EXCEPT ![t] = IF t = "main" THEN "serving" ELSE "idle"]
    /\ next_run' = IF t = "cron" THEN Date(now + IntervalDays) ELSE next_run
    /\ UNCHANGED <<distVars, synthVars, tableVars, storeVars, now, localVars,
                   repo_index, latest_checkpoint, processed_data_path, failed_query, trainer>>

\* run_cron_jobs, line 18: schedule.every(24).hours.do(process_data_main).
ScheduleJob ==
    /\ pc["cron"] = "unscheduled"
    /\ next_run' = Date(now + IntervalDays)
    /\ pc' = [pc EXCEPT !["cron"] = "idle"]
    /\ UNCHANGED <<distVars, synthVars, tableVars, storeVars, now, localVars,
                   repo_index, latest_checkpoint, processed_data_path, failed_query, trainer>>

\* run_cron_jobs, lines 20-22: run_pending() runs the job once it is due, on
\* the scheduler thread, whatever the main thread is doing.
RunPending ==
    /\ pc["cron"] = "idle"
    /\ next_run.val <= now
    /\ pc' = [pc EXCEPT !["cron"] = "start"]
    /\ UNCHANGED <<distVars, synthVars, tableVars, storeVars, clockVars, localVars,
                   repo_index, latest_checkpoint, processed_data_path, failed_query, trainer>>

\* The clock advances by a day.
Tick ==
    /\ now < LastTick
    /\ now' = now + 1
    /\ UNCHANGED <<distVars, synthVars, tableVars, storeVars, next_run, localVars, runVars>>

-----------------------------------------------------------------------------
(* Specifications *)

\* No call of the scorer in progress.
DistIdle ==
    /\ changed_file_path = None
    /\ test_file_path = None
    /\ min_distance = 0
    /\ dist_pc = "returned"
    /\ common_tokens = 0

\* No call of the Feature Synthesizer in progress.
SynthIdle ==
    /\ arg_test_run = None
    /\ arg_file_change_path = <<>>
    /\ arg_pr_creation_date = 0
    /\ arg_failed_run_dates = <<>>
    /\ arg_file_change_dates = <<>>
    /\ data = None
    /\ synth_pc = "idle"

\* Empty storage outputs and no run started.
RunsFresh ==
    /\ checkpoint_details = {}
    /\ predicted_result = {}
    /\ csv_files = <<>>
    /\ now = DateList[Len(DateList)]
    /\ next_run = None
    /\ repo_index = [t \in Threads |-> 0]
    /\ latest_checkpoint = [t \in Threads |-> None]
    /\ pull_request_details = [t \in Threads |-> <<>>]
    /\ pr_files_changed_data = [t \in Threads |-> <<>>]
    /\ pr_test_runs_data = [t \in Threads |-> <<>>]
    /\ files_changed_history = [t \in Threads |-> <<>>]
    /\ test_runs_failure_history = [t \in Threads |-> <<>>]
    /\ feature_data = [t \in Threads |-> <<>>]
    /\ processed_data_path = [t \in Threads |-> None]
    /\ failed_query = [t \in Threads |-> "none"]
    /\ trainer = [t \in Threads |-> NoTrainer]

\* SpecDist: one call of calculate_minimal_distance on every input.
InitDist ==
    /\ changed_file_path \in ChangedInputs
    /\ test_file_path \in TestInputs
    /\ min_distance = 0
    /\ dist_pc = "called"
    /\ common_tokens = 0
    /\ SynthIdle
    /\ repo_pr_details = <<>>
    /\ pr_to_files_changed_mapping = <<>>
    /\ pr_to_test_runs_mapping = <<>>
    /\ RunsFresh
    /\ pc = [t \in Threads |-> "killed"]

CallMinimalDistance ==
    /\ dist_pc = "called"
    /\ min_distance' = calculate_minimal_distance(changed_file_path, test_file_path)
    /\ dist_pc' = "returned"
    /\ UNCHANGED <<changed_file_path, test_file_path, synthVars, tableVars, storeVars, clockVars,
                   localVars, runVars>>

NextDist == CallMinimalDistance

SpecDist == InitDist /\ [][NextDist]_vars

\* SpecTokens: one call of calculate_common_tokens on every pair of inputs.
TokenInputs == {None} \cup {Str(s) : s \in StringsUpTo(MaxPathLen) \cup {PathABC, PathABTestC}}

InitTokens ==
    /\ changed_file_path \in TokenInputs
    /\ test_file_path \in TokenInputs
    /\ min_distance = 0
    /\ dist_pc = "called"
    /\ common_tokens = 0
    /\ SynthIdle
    /\ repo_pr_details = <<>>
    /\ pr_to_files_changed_mapping = <<>>
    /\ pr_to_test_runs_mapping = <<>>
    /\ RunsFresh
    /\ pc = [t \in Threads |-> "killed"]

CallCommonTokens ==
    /\ dist_pc = "called"
    /\ common_tokens' = calculate_common_tokens(changed_file_path, test_file_path)
    /\ dist_pc' = "returned"
    /\ UNCHANGED <<changed_file_path, test_file_path, min_distance, arg_test_run,
                   arg_file_change_path, arg_pr_creation_date, arg_failed_run_dates,
                   arg_file_change_dates, data, synth_pc, tableVars, storeVars,
                   clockVars, localVars, runVars>>

NextTokens == CallCommonTokens

SpecTokens == InitTokens /\ [][NextTokens]_vars

\* ---- inputs of the Feature Synthesizer ----

\* Longest date list of a call.
MaxDates == 4

\* The dates of the pull request of a call.
SynthPrDates == {40, 41}

\* Failure dates relative to the pull request: the documented example
\* (1, 10, 20 and 30 days before), the three boundaries (7, 14 and 28 days
\* before) and a later date.
FailureOffsets == {-30, -28, -20, -14, -10, -7, -1, 1}

DateListsOf(d, offsets) == UNION {[1..k -> {d + o : o \in offsets}] : k \in 0..MaxDates}

SynthTestRuns ==
    {[test_case_file_path |-> TestPathA, test_case_name |-> <<"x">>, actual_result |-> r] :
        r \in {"passed", "failed"}}

\* Nothing stored and no run of the pipeline.
PipelineOff ==
    /\ repo_pr_details = <<>>
    /\ pr_to_files_changed_mapping = <<>>
    /\ pr_to_test_runs_mapping = <<>>
    /\ RunsFresh
    /\ pc = [t \in Threads |-> "killed"]

\* SpecTestRun: one call of process_test_run on every input within the bounds.
InitTestRun ==
    /\ DistIdle
    /\ PipelineOff
    /\ arg_test_run \in SynthTestRuns
    /\ arg_pr_creation_date \in SynthPrDates
    /\ arg_failed_run_dates \in DateListsOf(arg_pr_creation_date, FailureOffsets)
    /\ arg_file_change_path = <<>>
    /\ arg_file_change_dates = <<>>
    /\ data = None
    /\ synth_pc = "called"

CallProcessTestRun ==
    /\ synth_pc = "called"
    /\ arg_test_run # None
    /\ data' = process_test_run(arg_test_run, arg_pr_creation_date, arg_failed_run_dates)
    /\ synth_pc' = "returned"
    /\ UNCHANGED <<distVars, common_tokens, arg_test_run, arg_file_change_path,
                   arg_pr_creation_date, arg_failed_run_dates, arg_file_change_dates,
                   tableVars, storeVars, clockVars, localVars, runVars>>

NextTestRun == CallProcessTestRun

SpecTestRun == InitTestRun /\ [][NextTestRun]_vars

\* Change dates relative to the pull request: the two boundaries (3 and 14
\* days before), the days next to them, the day of the pull request and a
\* later date.
ChangeOffsets == {-15, -14, -10, -4, -3, -1, 0, 1}

SynthFilePaths == {FilePathA, FilePathG}

\* SpecFileChange: one call of process_file_change on every input within the bounds.
InitFileChange ==
    /\ DistIdle
    /\ PipelineOff
    /\ arg_test_run = None
    /\ arg_failed_run_dates = <<>>
    /\ arg_file_change_path \in SynthFilePaths
    /\ arg_pr_creation_date \in SynthPrDates
    /\ arg_file_change_dates \in DateListsOf(arg_pr_creation_date, ChangeOffsets)
    /\ data = None
    /\ synth_pc = "called"

CallProcessFileChange ==
    /\ synth_pc = "called"
    /\ arg_test_run = None
    /\ data' = process_file_change(arg_file_change_path, arg_pr_creation_date,
                                   arg_file_change_dates)
    /\ synth_pc' = "returned"
    /\ UNCHANGED <<distVars, common_tokens, arg_test_run, arg_file_change_path,
                   arg_pr_creation_date, arg_failed_run_dates, arg_file_change_dates,
                   tableVars, storeVars, clockVars, localVars, runVars>>

NextFileChange == CallProcessFileChange

SpecFileChange == InitFileChange /\ [][NextFileChange]_vars

\* SpecFeat: one pass of process_data_for_repo over every stored input within
\* the bounds, for the first repository, in full-history and in incremental mode.
InitFeat ==
    /\ DistIdle
    /\ SynthIdle
    /\ repo_pr_details \in PrTables
    /\ pr_to_files_changed_mapping \in FileTables
    /\ pr_to_test_runs_mapping \in TestTables
    /\ checkpoint_details = {}
    /\ predicted_result = {}
    /\ csv_files = <<>>
    /\ now = DateList[Len(DateList)]
    /\ next_run = None
    /\ pc = [t \in Threads |-> IF t = "main" THEN "process" ELSE "killed"]
    /\ repo_index = [t \in Threads |-> IF t = "main" THEN 1 ELSE 0]
    /\ latest_checkpoint \in {[t \in Threads |-> IF t = "main" THEN c ELSE None] :
                                 c \in InputCheckpoints}
    /\ pull_request_details = [t \in Threads |-> <<>>]
    /\ pr_files_changed_data = [t \in Threads |-> <<>>]
    /\ pr_test_runs_data = [t \in Threads |-> <<>>]
    /\ files_changed_history = [t \in Threads |-> <<>>]
    /\ test_runs_failure_history = [t \in Threads |-> <<>>]
    /\ feature_data = [t \in Threads |-> <<>>]
    /\ processed_data_path = [t \in Threads |-> None]
    /\ failed_query = [t \in Threads |-> "none"]
    /\ trainer = [t \in Threads |-> NoTrainer]

NextFeat == ProcessDataForRepo("main")

SpecFeat == InitFeat /\ [][NextFeat]_vars

\* SpecIncr: one incremental pass for the first repository, the checkpoint
\* dated the last date of DateList.  The pull requests are dated around the
\* start of the lookback (the day before it, that day and the day after),
\* inside the 14-day windows, and on the checkpoint date.
IncrCheckpoint == Date(DateList[Len(DateList)])

IncrDates ==
    {IncrCheckpoint.val - LookbackDays - 1, IncrCheckpoint.val - LookbackDays,
     IncrCheckpoint.val - LookbackDays + 1, IncrCheckpoint.val - 14, IncrCheckpoint.val}

IncrPrTables ==
    UNION {{[i \in 1..k |-> PrRow(PrLinkNames[i], f[i][1], f[i][2])] :
               f \in {g \in [1..k -> Repos \X IncrDates] : k > 0 => g[1][1] = repositories[1]}} :
           k \in 0..MaxPRs}

InitIncr ==
    /\ DistIdle
    /\ SynthIdle
    /\ repo_pr_details \in IncrPrTables
    /\ pr_to_files_changed_mapping \in FileTables
    /\ pr_to_test_runs_mapping \in TestTables
    /\ checkpoint_details = {}
    /\ predicted_result = {}
    /\ csv_files = <<>>
    /\ now = DateList[Len(DateList)]
    /\ next_run = None
    /\ pc = [t \in Threads |-> IF t = "main" THEN "process" ELSE "killed"]
    /\ repo_index = [t \in Threads |-> IF t = "main" THEN 1 ELSE 0]
    /\ latest_checkpoint = [t \in Threads |-> IF t = "main" THEN IncrCheckpoint ELSE None]
    /\ pull_request_details = [t \in Threads |-> <<>>]
    /\ pr_files_changed_data = [t \in Threads |-> <<>>]
    /\ pr_test_runs_data = [t \in Threads |-> <<>>]
    /\ files_changed_history = [t \in Threads |-> <<>>]
    /\ test_runs_failure_history = [t \in Threads |-> <<>>]
    /\ feature_data = [t \in Threads |-> <<>>]
    /\ processed_data_path = [t \in Threads |-> None]
    /\ failed_query = [t \in Threads |-> "none"]
    /\ trainer = [t \in Threads |-> NoTrainer]

NextIncr == ProcessDataForRepo("main")

SpecIncr == InitIncr /\ [][NextIncr]_vars

\* SpecHist: one full-history pass for the first repository over test runs
\* whose file paths and names may hold colons: "t" and "t:", "x" and ":x".
HistTestPaths == {<<"t">>, <<"t", ":">>}

HistTestNames == {<<"x">>, <<":", "x">>}

HistTestRows ==
    {[pr_link |-> PrLinkNames[i], test_case_file_path |-> path, test_case_name |-> name,
      actual_result |-> result] :
        i \in 1..MaxPRs, path \in HistTestPaths, name \in HistTestNames,
        result \in {"passed", "failed"}}

HistTestTables == UNION {[1..k -> HistTestRows] : k \in 0..MaxTestRows}

InitHist ==
    /\ DistIdle
    /\ SynthIdle
    /\ repo_pr_details \in PrTables
    /\ pr_to_files_changed_mapping \in FileTables
    /\ pr_to_test_runs_mapping \in HistTestTables
    /\ checkpoint_details = {}
    /\ predicted_result = {}
    /\ csv_files = <<>>
    /\ now = DateList[Len(DateList)]
    /\ next_run = None
    /\ pc = [t \in Threads |-> IF t = "main" THEN "process" ELSE "killed"]
    /\ repo_index = [t \in Threads |-> IF t = "main" THEN 1 ELSE 0]
    /\ latest_checkpoint = [t \in Threads |-> None]
    /\ pull_request_details = [t \in Threads |-> <<>>]
    /\ pr_files_changed_data = [t \in Threads |-> <<>>]
    /\ pr_test_runs_data = [t \in Threads |-> <<>>]
    /\ files_changed_history = [t \in Threads |-> <<>>]
    /\ test_runs_failure_history = [t \in Threads |-> <<>>]
    /\ feature_data = [t \in Threads |-> <<>>]
    /\ processed_data_path = [t \in Threads |-> None]
    /\ failed_query = [t \in Threads |-> "none"]
    /\ trainer = [t \in Threads |-> NoTrainer]

NextHist == ProcessDataForRepo("main")

SpecHist == InitHist /\ [][NextHist]_vars

\* Spec: the process of app.py.  The scheduler thread is started, then the
\* main thread runs main() at once; storage holds one of the stored inputs.
Init ==
    /\ DistIdle
    /\ SynthIdle
    /\ \E stored \in StoredInputs :
          /\ repo_pr_details = stored.prs
          /\ pr_to_files_changed_mapping = stored.files
          /\ pr_to_test_runs_mapping = stored.tests
    /\ RunsFresh
    /\ pc = [t \in Threads |-> IF t = "main" THEN "start" ELSE "unscheduled"]

Next ==
    \/ \E t \in Threads :
          \/ FetchRepositories(t)
          \/ ResolveCheckpoint(t)
          \/ ProcessDataForRepo(t)
          \/ TrainFit(t)
          \/ TrainSave(t)
          \/ TrainReport(t)
          \/ MainReturn(t)
    \/ ScheduleJob
    \/ RunPending
    \/ Tick

Spec == Init /\ [][Next]_vars

-----------------------------------------------------------------------------
(* Claims about calculate_minimal_distance *)

Parts(s) == Split(s, {"/"})

\* The number of indices i < min(len_a, len_b) - 1 (0-based; 1-based here) such
\* that the components agree at i and at every index before it.
LeadingMatches(a, b) ==
    Cardinality({i \in 1..(Min(Len(a), Len(b)) - 1) : \A j \in 1..i : a[j] = b[j]})

ClaimedDistance(s, t) ==
    Len(Parts(s)) + Len(Parts(t)) - 2 * LeadingMatches(Parts(s), Parts(t))

ClaimedDistances(changed, test) ==
    IF changed.kind = "str" THEN {ClaimedDistance(changed.val, test.val)}
    ELSE {ClaimedDistance(changed.val[i].filename, test.val) : i \in 1..Len(changed.val)}

IsMinimumOf(m, S) == m \in S /\ \A x \in S : m <= x

-----------------------------------------------------------------------------
(* Claims about one pass of process_data_for_repo (SpecFeat) *)

\* process_data_for_repo has returned to main on thread t.
PassDone(t) == pc[t] \in {"train", "resolve"}

RowsOfLink(rows, link) ==
    LET Mine(row) == row.pr_link = link
    IN  SelectSeq(rows, Mine)

Label(test_run) == IF test_run.actual_result = "passed" THEN 0 ELSE 1

\* C1: every pull request of the processing set with M fetched test-run rows
\* and N fetched file-change rows has exactly M*N feature rows, one per (test
\* run, file change) pair, each with num_files_changed = N and with the label
\* of its own test run; no feature row carries another pr_link.
C1_PairExpansion ==
    PassDone("main") =>
        /\ \A p \in 1..Len(pull_request_details["main"]) :
              LET link == pull_request_details["main"][p].pr_link
                  tests == RowsOfLink(pr_test_runs_data["main"], link)
                  files == RowsOfLink(pr_files_changed_data["main"], link)
                  rows == RowsOfLink(feature_data["main"], link)
                  M == Len(tests)
                  N == Len(files)
              IN  /\ Len(rows) = M * N
                  /\ \A i \in 1..M : \A j \in 1..N :
                        LET row == rows[(i - 1) * N + j]
                        IN  /\ row.test_case_file_path = tests[i].test_case_file_path
                            /\ row.test_case_name = tests[i].test_case_name
                            /\ row.actual_result = Label(tests[i])
                            /\ row.file_name = splitext(files[j].files_paths_changed)[1]
                            /\ row.num_files_changed = N
        /\ \A k \in 1..Len(feature_data["main"]) :
              feature_data["main"][k].pr_link \in Links(pull_request_details["main"])

\* A pull request with two test runs of different results and two file
\* changes, expanded into four rows.
C1_Witness ==
    /\ PassDone("main")
    /\ \E p \in 1..Len(pull_request_details["main"]) :
          LET link == pull_request_details["main"][p].pr_link
              tests == RowsOfLink(pr_test_runs_data["main"], link)
          IN  /\ Len(tests) = 2
              /\ tests[1].actual_result # tests[2].actual_result
              /\ Len(RowsOfLink(pr_files_changed_data["main"], link)) = 2
              /\ Len(RowsOfLink(feature_data["main"], link)) = 4

\* The k-th smallest element of a set of numbers.
NthOf(S, k) == CHOOSE i \in S : Cardinality({j \in S : j < i}) = k - 1

\* A table without the rows at the indices of drop.
Without(table, drop) ==
    LET keep == (1..Len(table)) \ drop
    IN  [k \in 1..Cardinality(keep) |-> table[NthOf(keep, k)]]

\* The indices of the rows of a mapping table that belong to pull requests
\* dated strictly after date.
RowsOfLaterPrs(table, date) ==
    {i \in 1..Len(table) :
        \E q \in 1..Len(repo_pr_details) :
            /\ repo_pr_details[q].pr_link = table[i].pr_link
            /\ repo_pr_details[q].date_of_pr > date}

Windows(row) ==
    <<row.failures_7_days, row.failures_14_days, row.failures_28_days,
      row.changes_3_days, row.changes_14_days>>

WindowsOfLink(rows, link) ==
    LET mine == RowsOfLink(rows, link)
    IN  [k \in 1..Len(mine) |-> Windows(mine[k])]

\* What a pass over the stored rows, less some rows of the mapping tables, assembles.
PassWithout(t, drop_files, drop_tests) ==
    LET details == FetchPullRequests(repo_pr_details, repositories[1], latest_checkpoint[t])
    IN  FeatureData(details,
                    FetchByLinks(Without(pr_to_files_changed_mapping, drop_files), details),
                    FetchByLinks(Without(pr_to_test_runs_mapping, drop_tests), details))

\* C2: the windowed counts of the rows of a pull request P are the same in any
\* two inputs that differ only in the test-run and file-change rows of pull
\* requests dated strictly after P: here the stored input, and the stored
\* input less any of those rows.
C2_LeakageFree ==
    PassDone("main") =>
        \A p \in 1..Len(pull_request_details["main"]) :
            LET P == pull_request_details["main"][p]
            IN  \A drop_files \in SUBSET RowsOfLaterPrs(pr_to_files_changed_mapping, P.date_of_pr) :
                \A drop_tests \in SUBSET RowsOfLaterPrs(pr_to_test_runs_mapping, P.date_of_pr) :
                    WindowsOfLink(feature_data["main"], P.pr_link)
                      = WindowsOfLink(PassWithout("main", drop_files, drop_tests), P.pr_link)

-----------------------------------------------------------------------------
(* Claims about the cycle (Spec) *)

RepoOf(t) == repositories[repo_index[t]]

\* Thread t is inside main().
Running(t) == pc[t] \in {"start", "resolve", "process", "train", "save", "report"}

\* C3: the trainer is invoked for a repository only if the pass assembled at
\* least one feature row for it (and so wrote its dataset file).
C3_TrainOnlyWithRows ==
    \A t \in Threads : pc[t] = "train" => feature_data[t] # <<>>

\* C4: when a storage query of process_data_for_repo fails, no dataset file is
\* written and the run goes on with the next repository.
C4_QueryFailureSkipsRepo ==
    [][\A t \in Threads :
          (failed_query[t] = "none" /\ failed_query'[t] = "process_data_for_repo")
              => /\ csv_files' = csv_files
                 /\ pc'[t] = "resolve"
                 /\ repo_index'[t] = repo_index[t] + 1]_vars

\* C5: when the trainer has exited with a non-zero status, the step train_model
\* takes next returns to the loop of main, which goes on with the next
\* repository: main does not end there.
C5_TrainerFailureCaught ==
    [][\A t \in Threads :
          (pc[t] = "report" /\ trainer[t].exit # 0 /\ pc'[t] \notin {"report", "killed"})
              => /\ pc'[t] = "resolve"
                 /\ repo_index'[t] = repo_index[t] + 1]_vars

\* A run at its second repository after the trainer failed for the first.
C5_Witness ==
    \E t \in Threads :
        /\ pc[t] = "process"
        /\ repo_index[t] = 2
        /\ feature_data[t] # <<>>
        /\ trainer[t].exit # 0

\* C6: a trainer run that ends with a non-zero exit has committed nothing: no
\* step of a trainer changes checkpoint_details unless it ends the run with
\* exit 0, so the maximum date_of_checkpoint of the repository is what it was.
C6_FailedTrainerCommitsNothing ==
    [][\A t \in Threads :
          (pc[t] \in {"train", "save"} /\ pc'[t] \in {"save", "report"} /\ pc'[t] # pc[t]
             /\ (pc'[t] = "report" => trainer'[t].exit # 0))
              => /\ checkpoint_details' = checkpoint_details
                 /\ predicted_result' = predicted_result
                 /\ ~trainer'[t].committed
                 /\ MaxCheckpoint(checkpoint_details', RepoOf(t))
                      = MaxCheckpoint(checkpoint_details, RepoOf(t))]_vars

\* A trainer run that went as far as the database block and ended with a
\* non-zero exit, for a repository that already has a checkpoint.
C6_Witness ==
    \E t \in Threads :
        /\ pc[t] = "report"
        /\ trainer[t].exit # 0
        /\ trainer[t].test_keys # {}
        /\ MaxCheckpoint(checkpoint_details, RepoOf(t)) # None

\* C7: when the trainer has exited with status zero, a checkpoint row of this
\* run (its repository, its dataset) and the prediction rows of its test cases
\* under that checkpoint are committed in storage.
C7_SuccessHasCheckpoint ==
    \A t \in Threads :
        (pc[t] = "report" /\ trainer[t].exit = 0) =>
            \E row \in checkpoint_details :
                /\ row.repo_name = RepoOf(t)
                /\ row.data_path = processed_data_path[t]
                /\ \A k \in trainer[t].test_keys :
                      \E prediction \in predicted_result :
                          /\ prediction.pr_link = k.pr_link
                          /\ prediction.test_case_file_path = k.test_case_file_path
                          /\ prediction.test_case_name = k.test_case_name
                          /\ prediction.checkpoint = row.checkpoint

\* C8: the immediate run on the main thread and a scheduled run on the
\* scheduler thread are never both in progress.
C8_NoOverlappingRuns == ~(Running("main") /\ Running("cron"))

\* The rows of repo_pr_details of a repository, all or since a date.
PrsOfRepo(repo_name) ==
    {repo_pr_details[i] : i \in {j \in 1..Len(repo_pr_details) :
                                    repo_pr_details[j].repo_name = repo_name}}

Elements(seq) == {seq[i] : i \in 1..Len(seq)}

\* C9: the Checkpoint Resolver yields the maximum date_of_checkpoint of the
\* repository (none if it has no checkpoint).  With a checkpoint, the pass
\* processes exactly the pull requests of the repository dated on or after
\* that maximum minus 28 days, and none dated before it has a feature row;
\* without one, it processes all the pull requests of the repository.
C9_IncrementalWindow ==
    [][\A t \in Threads :
          /\ (pc[t] = "resolve" /\ pc'[t] = "process") =>
                LET dates == {row.date_of_checkpoint :
                                 row \in {r \in checkpoint_details : r.repo_name = RepoOf(t)}}
                IN  IF dates = {} THEN latest_checkpoint'[t] = None
                    ELSE /\ latest_checkpoint'[t].kind = "date"
                         /\ latest_checkpoint'[t].val \in dates
                         /\ \A d \in dates : d <= latest_checkpoint'[t].val
          /\ (pc[t] = "process" /\ pc'[t] \in {"train", "resolve"}) =>
                IF latest_checkpoint[t] = None
                THEN Elements(pull_request_details'[t]) = PrsOfRepo(RepoOf(t))
                ELSE LET start_date == latest_checkpoint[t].val - 28
                     IN  /\ Elements(pull_request_details'[t])
                              = {pr \in PrsOfRepo(RepoOf(t)) : pr.date_of_pr >= start_date}
                         /\ \A k \in 1..Len(feature_data'[t]) :
                               /\ feature_data'[t][k].date_of_pr >= start_date
                               /\ \E pr \in Elements(pull_request_details'[t]) :
                                     pr.pr_link = feature_data'[t][k].pr_link]_vars

\* An incremental pass that leaves out a pull request older than the start
\* date, keeps one dated exactly the start date, and assembles rows.
C9_Witness ==
    \E t \in Threads :
        /\ pc[t] = "train"
        /\ latest_checkpoint[t] # None
        /\ \E pr \in PrsOfRepo(RepoOf(t)) : pr.date_of_pr < latest_checkpoint[t].val - 28
        /\ \E pr \in Elements(pull_request_details[t]) :
              pr.date_of_pr = latest_checkpoint[t].val - 28
        /\ feature_data[t] # <<>>

-----------------------------------------------------------------------------
(* Claims about the Feature Synthesizer (SpecTestRun, SpecFileChange) *)

\* process_test_run has returned.
TestRunReturned == synth_pc = "returned" /\ arg_test_run # None

\* The entries of a date list strictly later than a date, in order.
StrictlyLater(dates, bound) ==
    LET Later(d) == d > bound
    IN  SelectSeq(dates, Later)

\* The entries of a date list that differ from a date, in order.
OtherThan(dates, bound) ==
    LET Other(d) == d # bound
    IN  SelectSeq(dates, Other)

\* C11: process_test_run returns as failures_7_days, failures_14_days and
\* failures_28_days the number of entries of the failure-date list, counted
\* with multiplicity, that are strictly later than 7, 14 and 28 days before
\* the date of the pull request; an entry equal to a boundary is not counted
\* in that window; the list [d-1, d-10, d-20, d-30] gives 1, 2 and 3.
C11_FailureWindowsStrict ==
    TestRunReturned =>
        LET d == arg_pr_creation_date
            L == arg_failed_run_dates
        IN  /\ data.failures_7_days = Len(StrictlyLater(L, d - 7))
            /\ data.failures_14_days = Len(StrictlyLater(L, d - 14))
            /\ data.failures_28_days = Len(StrictlyLater(L, d - 28))
            /\ data.failures_7_days <= Len(OtherThan(L, d - 7))
            /\ data.failures_14_days <= Len(OtherThan(L, d - 14))
            /\ data.failures_28_days <= Len(OtherThan(L, d - 28))
            /\ L = <<d - 1, d - 10, d - 20, d - 30>> =>
                  /\ data.failures_7_days = 1
                  /\ data.failures_14_days = 2
                  /\ data.failures_28_days = 3

\* The documented example has returned 1, 2 and 3.
C11_Witness ==
    /\ TestRunReturned
    /\ arg_failed_run_dates = <<arg_pr_creation_date - 1, arg_pr_creation_date - 10,
                                arg_pr_creation_date - 20, arg_pr_creation_date - 30>>
    /\ data.failures_7_days = 1
    /\ data.failures_14_days = 2
    /\ data.failures_28_days = 3

\* process_file_change has returned.
FileChangeReturned == synth_pc = "returned" /\ arg_test_run = None

\* The entries of a date list on or after a date, in order.
OnOrAfter(dates, bound) ==
    LET Since(d) == d >= bound
    IN  SelectSeq(dates, Since)

\* The entries of a date list equal to a date, in order.
EqualTo(dates, bound) ==
    LET Same(d) == d = bound
    IN  SelectSeq(dates, Same)

\* C12: process_file_change returns as changes_3_days and changes_14_days the
\* number of entries of the change-date list, counted with multiplicity, that
\* are on or after 3 and 14 days before the date of the pull request; an
\* entry equal to a boundary is counted, whereas process_test_run leaves an
\* entry equal to its 14-day boundary out.
C12_ChangeWindowsInclusive ==
    FileChangeReturned =>
        LET d == arg_pr_creation_date
            L == arg_file_change_dates
            failures == process_test_run(CHOOSE r \in SynthTestRuns : TRUE, d, L)
        IN  /\ data.changes_3_days = Len(OnOrAfter(L, d - 3))
            /\ data.changes_14_days = Len(OnOrAfter(L, d - 14))
            /\ data.changes_3_days >= Len(EqualTo(L, d - 3))
            /\ data.changes_14_days >= Len(EqualTo(L, d - 14))
            /\ data.changes_14_days = failures.failures_14_days + Len(EqualTo(L, d - 14))

\* A list with the two boundary dates, one of them twice, and an older date:
\* the 3-day boundary is counted in both windows, the 14-day one in the second.
C12_Witness ==
    /\ FileChangeReturned
    /\ arg_file_change_dates = <<arg_pr_creation_date - 3, arg_pr_creation_date - 14,
                                 arg_pr_creation_date - 14, arg_pr_creation_date - 15>>
    /\ data.changes_3_days = 1
    /\ data.changes_14_days = 3

-----------------------------------------------------------------------------
(* Claims about calculate_common_tokens (SpecTokens) *)

TokenSeparators == {"/", "."}

\* The non-empty tokens of a path: its maximal runs of characters other than
\* '/' and '.'.
TokenSet(s) ==
    {SubSeq(s, i, j) : <<i, j>> \in
        {r \in (1..Len(s)) \X (1..Len(s)) :
            /\ r[1] <= r[2]
            /\ \A k \in r[1]..r[2] : s[k] \notin TokenSeparators
            /\ r[1] = 1 \/ s[r[1] - 1] \in TokenSeparators
            /\ r[2] = Len(s) \/ s[r[2] + 1] \in TokenSeparators}}

\* C13: calculate_common_tokens(a, b) is the size of the intersection of the
\* sets of non-empty tokens of a and b split on '/' and '.'; it is 0 when
\* either input is empty or None; and calculate_common_tokens(b, a) is the
\* same number.
C13_CommonTokens ==
    dist_pc = "returned" =>
        /\ (changed_file_path \in {None, Str(<<>>)} \/ test_file_path \in {None, Str(<<>>)}) =>
              common_tokens = 0
        /\ (changed_file_path # None /\ test_file_path # None) =>
              common_tokens = Cardinality(TokenSet(changed_file_path.val)
                                            \cap TokenSet(test_file_path.val))
        /\ common_tokens = calculate_common_tokens(test_file_path, changed_file_path)

\* "a/b/c.py" and "a/b/test_c.py" share the three tokens a, b and py.
C13_Witness ==
    /\ dist_pc = "returned"
    /\ changed_file_path = Str(PathABC)
    /\ test_file_path = Str(PathABTestC)
    /\ common_tokens = 3

-----------------------------------------------------------------------------
(* Claims about incremental mode and the History Aggregator (SpecIncr, SpecHist) *)

\* What a pass in full-history mode assembles over the stored rows.
FullHistoryPass ==
    LET details == FetchPullRequests(repo_pr_details, repositories[1], None)
    IN  FeatureData(details,
                    FetchByLinks(pr_to_files_changed_mapping, details),
                    FetchByLinks(pr_to_test_runs_mapping, details))

\* C14: after a pass in incremental mode, every stored pull request of the
\* repository dated on or after the checkpoint date has, row by row, the
\* windowed counts (failures over 7, 14 and 28 days, changes over 3 and 14
\* days) that a pass in full-history mode over the same stored rows gives it.
C14_IncrementalEqualsFull ==
    (PassDone("main") /\ latest_checkpoint["main"] # None) =>
        \A q \in 1..Len(repo_pr_details) :
            LET P == repo_pr_details[q]
            IN  (P.repo_name = repositories[1]
                   /\ P.date_of_pr >= latest_checkpoint["main"].val) =>
                    WindowsOfLink(feature_data["main"], P.pr_link)
                      = WindowsOfLink(FullHistoryPass, P.pr_link)

\* An incremental pass over a pull request dated the checkpoint date and an
\* earlier one inside the lookback, whose failure and whose file change are
\* counted in the windows of the first.
C14_Witness ==
    /\ PassDone("main")
    /\ latest_checkpoint["main"] # None
    /\ \E q \in 1..Len(repo_pr_details) :
          LET P == repo_pr_details[q]
              rows == RowsOfLink(feature_data["main"], P.pr_link)
          IN  /\ P.repo_name = repositories[1]
              /\ P.date_of_pr >= latest_checkpoint["main"].val
              /\ Len(pull_request_details["main"]) = 2
              /\ rows # <<>>
              /\ rows[1].failures_28_days = 1
              /\ rows[1].failures_14_days = 0
              /\ rows[1].changes_14_days = 2
              /\ WindowsOfLink(feature_data["main"], P.pr_link)
                    = WindowsOfLink(FullHistoryPass, P.pr_link)

\* The History Aggregator of the pass on thread t has run.
HistoriesBuilt(t) == pc[t] = "train"

\* date_of_pr of the stored pull request with a link (pr_link is unique).
ParentDate(link) ==
    LET q == CHOOSE k \in 1..Len(repo_pr_details) : repo_pr_details[k].pr_link = link
    IN  repo_pr_details[q].date_of_pr

\* One entry per row, in row order: the date of the row's pull request.
ParentDates(rows) == [i \in 1..Len(rows) |-> ParentDate(rows[i].pr_link)]

RowsOfPath(rows, path) ==
    LET Same(row) == row.files_paths_changed = path
    IN  SelectSeq(rows, Same)

\* The failed rows of one test case: the same file path and the same name.
FailedRowsOfTestCase(rows, path, name) ==
    LET Same(row) == /\ row.test_case_file_path = path
                     /\ row.test_case_name = name
                     /\ row.actual_result = "failed"
    IN  SelectSeq(rows, Same)

\* The failed rows filed under one key of the failure history.
FailedRowsOfKey(rows, key) ==
    LET Same(row) == /\ get_test_run_key(row.test_case_file_path, row.test_case_name) = key
                     /\ row.actual_result = "failed"
    IN  SelectSeq(rows, Same)

\* The change-date list of every path has one entry per fetched row with
\* that path, the date of the row's pull request.
ChangeHistoryPerRow(t) ==
    \A i \in 1..Len(pr_files_changed_data[t]) :
        LET path == pr_files_changed_data[t][i].files_paths_changed
        IN  /\ path \in DOMAIN files_changed_history[t]
            /\ files_changed_history[t][path]
                  = ParentDates(RowsOfPath(pr_files_changed_data[t], path))

\* C15: after the History Aggregator, the change-date list of each file path
\* has exactly one entry, the date of the parent pull request, per fetched
\* file-change row with that path, and the failure-date list of each test
\* case (test_case_file_path, test_case_name) has exactly one entry per
\* fetched failed test-run row of that test case and none for its passed
\* rows; duplicate rows each contribute an entry.
C15_HistoryLists ==
    HistoriesBuilt("main") =>
        /\ ChangeHistoryPerRow("main")
        /\ \A i \in 1..Len(pr_test_runs_data["main"]) :
              LET row == pr_test_runs_data["main"][i]
                  key == get_test_run_key(row.test_case_file_path, row.test_case_name)
              IN  /\ key \in DOMAIN test_runs_failure_history["main"]
                  /\ test_runs_failure_history["main"][key]
                        = ParentDates(FailedRowsOfTestCase(pr_test_runs_data["main"],
                                          row.test_case_file_path, row.test_case_name))

\* The same statement with the failure-date lists taken per key of
\* get_test_run_key and not per test case: what the aggregator keeps for
\* any two test cases, with the same key or not.
HistoryListsPerKey ==
    HistoriesBuilt("main") =>
        /\ ChangeHistoryPerRow("main")
        /\ \A i \in 1..Len(pr_test_runs_data["main"]) :
              LET row == pr_test_runs_data["main"][i]
                  key == get_test_run_key(row.test_case_file_path, row.test_case_name)
              IN  /\ key \in DOMAIN test_runs_failure_history["main"]
                  /\ test_runs_failure_history["main"][key]
                        = ParentDates(FailedRowsOfKey(pr_test_runs_data["main"], key))

=============================================================================
